---- MODULE Spec2Model ----
(***************************************************************************)
(* Client-side state-and-sync model of the TodoList component (the variant *)
(* with assignees and labels) against the hosted relational store.         *)
(*                                                                         *)
(* The store is modelled as four tables; every awaited store call of a     *)
(* handler is one step in which the store executes the call (or rejects    *)
(* it) and the handler runs on to its next await.  Handlers read the       *)
(* component state through the closure of the render that invoked them,    *)
(* so each in-flight handler carries the values it captured.               *)
(*                                                                         *)
(* Strings whose content matters (titles, label names) are sequences of    *)
(* one-character strings, so that trim() and toLowerCase() are computed.   *)
(* Identifiers: todo ids are positive integers (0 stands for null), label  *)
(* ids are positive integers, user ids are strings ("" stands for none).   *)
(* The arrays selectedLabelIds and filterLabelIds are only read through    *)
(* length, includes, filter and map, so they are kept as bags: the order   *)
(* of their elements is not observable.                                    *)
(***************************************************************************)
EXTENDS Integers, Sequences, FiniteSets, Bags, TLC

\* ------------------------------------------------------------------ bounds
MaxTodos == 2
MaxLabels == 3
MaxInFlight == 2
MaxSelected == 2
MaxCalls == 2
MaxJoinRows == 2

\* ------------------------------------------------------------ input domains
UserIds == {"u1", "u2"}
Titles == {<<" ">>, <<"t">>}
LabelNames == {<<" ">>, <<"a">>, <<"A", " ">>, <<"B">>}
Texts == {"", "x"}

VARIABLES
    \* the store
    dbTodos, dbJoin, dbLabels, dbNextTodoId, dbNextLabelId,
    \* the component state (useState)
    todos, users, labels, title, description, dueDate, assigneeId,
    selectedLabelIds, newLabelName, editingId, filterUserId, filterLabelIds,
    \* handlers suspended at an await
    tasks,
    \* the message of the alert() the last step raised, "" when it raised none
    alert,
    \* history of the createNewLabel calls and of the toggleTodo calls
    calls, toggles

storeVars == <<dbTodos, dbJoin, dbLabels, dbNextTodoId, dbNextLabelId>>
formVars == <<title, description, dueDate, assigneeId, selectedLabelIds,
              newLabelName, editingId>>
filterVars == <<filterUserId, filterLabelIds>>
vars == <<dbTodos, dbJoin, dbLabels, dbNextTodoId, dbNextLabelId,
          todos, users, labels, title, description, dueDate, assigneeId,
          selectedLabelIds, newLabelName, editingId, filterUserId,
          filterLabelIds, tasks, alert, calls, toggles>>

\* ------------------------------------------------------------ sequences
Range(s) == {s[i] : i \in DOMAIN s}

Includes(s, x) == x \in Range(s)

Filter(s, Keep(_)) == SelectSeq(s, Keep)

\* ---------------------------------------------------------------- strings
IsSpace(c) == c = " "

RECURSIVE TrimStart(_)
TrimStart(s) ==
    IF s # <<>> /\ IsSpace(Head(s)) THEN TrimStart(Tail(s)) ELSE s

RECURSIVE TrimEnd(_)
TrimEnd(s) ==
    IF s # <<>> /\ IsSpace(s[Len(s)]) THEN TrimEnd(SubSeq(s, 1, Len(s) - 1)) ELSE s

\* a trim that takes nothing away
TrimNothing(s) == s

Trim(s) == TrimEnd(TrimStart(s))

LowerChar(c) == IF c = "A" THEN "a" ELSE IF c = "B" THEN "b" ELSE c

ToLowerCase(s) == [i \in DOMAIN s |-> LowerChar(s[i])]

\* collation rank of a character: space, then letters, lower case first
CharRank(c) ==
    CASE c = " " -> 0
      [] c = "a" -> 1
      [] c = "A" -> 2
      [] c = "b" -> 3
      [] c = "B" -> 4
      [] OTHER -> 5

\* a.localeCompare(b) < 0
RECURSIVE NameLess(_, _)
NameLess(a, b) ==
    IF b = <<>> THEN FALSE
    ELSE IF a = <<>> THEN TRUE
    ELSE IF CharRank(Head(a)) # CharRank(Head(b))
         THEN CharRank(Head(a)) < CharRank(Head(b))
         ELSE NameLess(Tail(a), Tail(b))

\* ----------------------------------------------------------------- store
\* table "profiles": read-only for this component
dbUsers == UserIds

TodoIds == {r.id : r \in dbTodos}

JoinRow(todoId, labelId) == [todo_id |-> todoId, label_id |-> labelId]

\* .eq("todo_id", id) on "todo_labels"
JoinRowsOf(id) == {r \in BagToSet(dbJoin) : r.todo_id = id}

\* from("todo_labels").delete().eq("todo_id", id)
JoinDelete(id) ==
    LET keep == BagToSet(dbJoin) \ JoinRowsOf(id)
    IN [r \in keep |-> CopiesIn(r, dbJoin)]

\* from("todo_labels").insert(rows): one row per element of the selection
JoinInsert(id, sel) ==
    dbJoin (+) [r \in {JoinRow(id, l) : l \in BagToSet(sel)} |-> sel[r.label_id]]

\* from("todo_labels").select("label_id").eq("todo_id", id)
JoinLabelBag(id) ==
    LET ls == {r.label_id : r \in JoinRowsOf(id)}
    IN [l \in ls |-> CopiesIn(JoinRow(id, l), dbJoin)]

\* the embedded labels:todo_labels(label_id, labels(id, name)) of one todo,
\* flattened: tl.labels is null when the label row is missing, and
\* filter(Boolean) drops it
FlatLabels(id) ==
    LET ls == {l \in DOMAIN JoinLabelBag(id) : l \in {r.id : r \in dbLabels}}
    IN [l \in ls |-> JoinLabelBag(id)[l]]

\* one element of transformedTodos
FlatTodo(row) ==
    [id |-> row.id, title |-> row.title, description |-> row.description,
     due_date |-> row.due_date, completed |-> row.completed,
     assignee_id |-> row.assignee_id,
     assignee |-> IF row.assignee_id \in dbUsers THEN row.assignee_id ELSE "",
     labels |-> FlatLabels(row.id)]

\* the rows in ascending order of identifier
RECURSIVE OrderByIdAsc(_)
OrderByIdAsc(rows) ==
    IF rows = {} THEN <<>>
    ELSE LET low == CHOOSE r \in rows : \A q \in rows : r.id <= q.id
         IN <<low>> \o OrderByIdAsc(rows \ {low})

\* .order("id", { ascending: false })
RECURSIVE OrderByIdDesc(_)
OrderByIdDesc(rows) ==
    IF rows = {} THEN <<>>
    ELSE LET top == CHOOSE r \in rows : \A q \in rows : q.id <= r.id
         IN <<top>> \o OrderByIdDesc(rows \ {top})

\* what the todos query of fetchTodos answers, after the flattening
SelectTodos ==
    LET ordered == OrderByIdDesc(dbTodos)
    IN [i \in DOMAIN ordered |-> FlatTodo(ordered[i])]

\* is a sequence of label rows in ascending name order
SortedByName(s) ==
    \A i, j \in DOMAIN s : i < j => ~NameLess(s[j].name, s[i].name)

\* what the labels query of fetchLabels can answer: every row, ordered by
\* name ascending (rows with equal names in any order)
SelectLabels ==
    {s \in [1..Cardinality(dbLabels) -> dbLabels] :
        Range(s) = dbLabels /\ SortedByName(s)}

\* Array.prototype.sort with (a, b) => a.name.localeCompare(b.name): stable
RECURSIVE InsertByName(_, _)
InsertByName(sorted, x) ==
    IF sorted = <<>> THEN <<x>>
    ELSE IF NameLess(x.name, Head(sorted).name)
         THEN <<x>> \o sorted
         ELSE <<Head(sorted)>> \o InsertByName(Tail(sorted), x)

RECURSIVE SortByName(_)
SortByName(s) ==
    IF s = <<>> THEN <<>>
    ELSE InsertByName(SortByName(SubSeq(s, 1, Len(s) - 1)), s[Len(s)])

\* ------------------------------------------------------------ derived views
\* todos.find by identifier
LocalIds == {todos[i].id : i \in DOMAIN todos}

LocalTodo(id) == todos[CHOOSE i \in DOMAIN todos : todos[i].id = id]

\* the assignees of every todo, the one being edited included
assignedIdsOfAll == [i \in DOMAIN todos |-> todos[i].assignee_id]

assignedIds ==
    LET others == SelectSeq(todos, LAMBDA t : editingId = 0 \/ t.id # editingId)
    IN [i \in DOMAIN others |-> others[i].assignee_id]

availableUsers ==
    {u \in users : ~Includes(assignedIds, u) \/ u = assigneeId}

\* an assignee test that lets every todo through
matchesAnyAssignee(todo) == TRUE

matchesAssignee(todo) == filterUserId = "" \/ todo.assignee_id = filterUserId

\* a label test that asks for one of the selected labels only
matchesSomeLabel(todo) ==
    \/ BagCardinality(filterLabelIds) = 0
    \/ \E filterLabelId \in BagToSet(filterLabelIds) :
          \E l \in BagToSet(todo.labels) : l = filterLabelId

matchesLabels(todo) ==
    \/ BagCardinality(filterLabelIds) = 0
    \/ \A filterLabelId \in BagToSet(filterLabelIds) :
          \E l \in BagToSet(todo.labels) : l = filterLabelId

filteredTodos ==
    SelectSeq(todos, LAMBDA todo : matchesAssignee(todo) /\ matchesLabels(todo))

\* the todos that have a checkbox, an Edit and a Delete button on screen
ShownIds == {filteredTodos[i].id : i \in DOMAIN filteredTodos}

\* ------------------------------------------------------------------ tasks
\* A handler suspended at an await: the call it waits for (pc) and the
\* values of the render it was invoked in.
Task0 ==
    [op |-> "", pc |-> "", id |-> 0, title |-> <<>>, description |-> "",
     due_date |-> "", assignee_id |-> "", sel |-> EmptyBag, completed |-> FALSE,
     editingId |-> 0, name |-> <<>>, data |-> <<>>,
     \* for the histories: the call this handler is
     call |-> 0]

Pending == BagToSet(tasks)

Spawn(t) == tasks (+) SetToBag({t})

Finish(t) == tasks (-) SetToBag({t})

Become(t, u) == (tasks (-) SetToBag({t})) (+) SetToBag({u})

MountOps == {"fetchTodos", "fetchUsers", "fetchLabels"}

\* the fetches the mount effect starts
MountTasks ==
    SetToBag({[Task0 EXCEPT !.op = o, !.pc = "sent"] : o \in MountOps})

\* number of pending handlers a user event started
InFlight ==
    LET mine == {t \in Pending : t.op \notin MountOps}
    IN BagCardinality([t \in mine |-> tasks[t]])

PendingWith(op, pc) ==
    LET mine == {t \in Pending : t.op = op /\ t.pc = pc}
    IN BagCardinality([t \in mine |-> tasks[t]])

ErrorMessage == "store error"

\* ------------------------------------------------------------------- init
\* the useState initial values
FreshComponent ==
    /\ todos = <<>>
    /\ users = {}
    /\ labels = <<>>
    /\ title = <<>>
    /\ description = ""
    /\ dueDate = ""
    /\ assigneeId = ""
    /\ selectedLabelIds = EmptyBag
    /\ newLabelName = <<>>
    /\ editingId = 0
    /\ filterUserId = ""
    /\ filterLabelIds = EmptyBag

\* the labels table at the start: names distinct ignoring case
TwoLabels ==
    /\ dbLabels = {[id |-> 1, name |-> <<"a">>], [id |-> 2, name |-> <<"b">>]}
    /\ dbNextLabelId = 3

OneLabel ==
    /\ dbLabels = {[id |-> 1, name |-> <<"b">>]}
    /\ dbNextLabelId = 2

\* no todo has been created yet
NoTodos ==
    /\ dbTodos = {}
    /\ dbJoin = EmptyBag
    /\ dbNextTodoId = 1

\* the store holds one todo, the last of MaxTodos that were created, with
\* one label
OneTodo ==
    /\ dbTodos = {[id |-> MaxTodos, title |-> <<"t">>, description |-> "",
                   due_date |-> "", completed |-> FALSE, assignee_id |-> "u1"]}
    /\ dbJoin = SetToBag({JoinRow(MaxTodos, 1)})
    /\ dbNextTodoId = MaxTodos + 1

\* the store holds one todo, the first that was created, with one label
FirstTodo ==
    /\ dbTodos = {[id |-> 1, title |-> <<"t">>, description |-> "",
                   due_date |-> "", completed |-> FALSE, assignee_id |-> "u1"]}
    /\ dbJoin = SetToBag({JoinRow(1, 1)})
    /\ dbNextTodoId = 2

\* the component just mounted: the effect has started the three fetches
Init ==
    /\ OneLabel
    /\ NoTodos
    /\ FreshComponent
    /\ tasks = MountTasks
    /\ alert = ""
    /\ calls = <<>>
    /\ toggles = <<>>

\* the component once the three fetches of the mount effect have succeeded
Loaded ==
    /\ todos = SelectTodos
    /\ users = dbUsers
    /\ labels \in SelectLabels
    /\ title = <<>>
    /\ description = ""
    /\ dueDate = ""
    /\ assigneeId = ""
    /\ selectedLabelIds = EmptyBag
    /\ newLabelName = <<>>
    /\ editingId = 0
    /\ filterUserId = ""
    /\ filterLabelIds = EmptyBag
    /\ tasks = EmptyBag
    /\ alert = ""
    /\ calls = <<>>
    /\ toggles = <<>>


\* ------------------------------------------------------------------ mount
\* The page is loaded again: the component state is re-created, the
\* handlers of the old page are gone with it, the effect runs again.
Mount ==
    /\ todos' = <<>>
    /\ users' = {}
    /\ labels' = <<>>
    /\ title' = <<>>
    /\ description' = ""
    /\ dueDate' = ""
    /\ assigneeId' = ""
    /\ selectedLabelIds' = EmptyBag
    /\ newLabelName' = <<>>
    /\ editingId' = 0
    /\ filterUserId' = ""
    /\ filterLabelIds' = EmptyBag
    /\ tasks' = MountTasks
    /\ alert' = ""
    /\ UNCHANGED <<storeVars, calls, toggles>>

\* ---------------------------------------------------------------- fetches
\* the store answers a pending select: with the rows it holds now, or with
\* an error
ServeTodos(t, ok) ==
    /\ t \in Pending
    /\ t.op \in {"fetchTodos", "refresh"}
    /\ t.pc = "sent"
    /\ tasks' = Become(t, IF ok THEN [t EXCEPT !.pc = "ok", !.data = SelectTodos]
                                ELSE [t EXCEPT !.pc = "err"])
    /\ alert' = ""
    /\ UNCHANGED <<storeVars, todos, users, labels, formVars, filterVars, calls, toggles>>

\* fetchTodos after its await
FetchTodosReturn(t) ==
    /\ t \in Pending
    /\ t.op \in {"fetchTodos", "refresh"}
    /\ t.pc \in {"ok", "err"}
    /\ todos' = IF t.pc = "ok" THEN t.data ELSE todos
    /\ tasks' = Finish(t)
    /\ alert' = ""
    /\ UNCHANGED <<storeVars, users, labels, formVars, filterVars, calls, toggles>>

ServeLabels(t, ok) ==
    /\ t \in Pending
    /\ t.op = "fetchLabels"
    /\ t.pc = "sent"
    /\ \E rows \in SelectLabels :
          tasks' = Become(t, IF ok THEN [t EXCEPT !.pc = "ok", !.data = rows]
                                   ELSE [t EXCEPT !.pc = "err"])
    /\ alert' = ""
    /\ UNCHANGED <<storeVars, todos, users, labels, formVars, filterVars, calls, toggles>>

\* a fetchLabels that empties the label set when the query fails
FetchLabelsReturnOrClear(t) ==
    /\ t \in Pending
    /\ t.op = "fetchLabels"
    /\ t.pc \in {"ok", "err"}
    /\ labels' = IF t.pc = "ok" THEN t.data ELSE <<>>
    /\ tasks' = Finish(t)
    /\ alert' = ""
    /\ UNCHANGED <<storeVars, todos, users, formVars, filterVars, calls, toggles>>

\* fetchLabels after its await
FetchLabelsReturn(t) ==
    /\ t \in Pending
    /\ t.op = "fetchLabels"
    /\ t.pc \in {"ok", "err"}
    /\ labels' = IF t.pc = "ok" THEN t.data ELSE labels
    /\ tasks' = Finish(t)
    /\ alert' = ""
    /\ UNCHANGED <<storeVars, todos, users, formVars, filterVars, calls, toggles>>

\* fetchUsers after its await (the profiles table never changes, so when
\* the store read it makes no difference)
FetchUsersReturn(t, ok) ==
    /\ t \in Pending
    /\ t.op = "fetchUsers"
    /\ t.pc = "sent"
    /\ users' = IF ok THEN dbUsers ELSE users
    /\ tasks' = Finish(t)
    /\ alert' = ""
    /\ UNCHANGED <<storeVars, todos, labels, formVars, filterVars, calls, toggles>>

\* ------------------------------------------------------------ form inputs
SetTitle(v) ==
    /\ title' = v
    /\ alert' = ""
    /\ UNCHANGED <<storeVars, todos, users, labels, description, dueDate,
                   assigneeId, selectedLabelIds, newLabelName, editingId,
                   filterVars, tasks, calls, toggles>>

SetDescription(v) ==
    /\ description' = v
    /\ alert' = ""
    /\ UNCHANGED <<storeVars, todos, users, labels, title, dueDate,
                   assigneeId, selectedLabelIds, newLabelName, editingId,
                   filterVars, tasks, calls, toggles>>

SetDueDate(v) ==
    /\ dueDate' = v
    /\ alert' = ""
    /\ UNCHANGED <<storeVars, todos, users, labels, title, description,
                   assigneeId, selectedLabelIds, newLabelName, editingId,
                   filterVars, tasks, calls, toggles>>

\* the assignee dropdown offers the available users only
SetAssigneeId(u) ==
    /\ u \in availableUsers
    /\ assigneeId' = u
    /\ alert' = ""
    /\ UNCHANGED <<storeVars, todos, users, labels, title, description,
                   dueDate, selectedLabelIds, newLabelName, editingId,
                   filterVars, tasks, calls, toggles>>

SetNewLabelName(v) ==
    /\ newLabelName' = v
    /\ alert' = ""
    /\ UNCHANGED <<storeVars, todos, users, labels, title, description,
                   dueDate, assigneeId, selectedLabelIds, editingId,
                   filterVars, tasks, calls, toggles>>

\* prev.includes(x) ? prev.filter(id => id !== x) : [...prev, x]
ToggleIn(prev, x) ==
    IF BagIn(x, prev) THEN [y \in BagToSet(prev) \ {x} |-> prev[y]]
    ELSE prev (+) SetToBag({x})

LocalLabelIds == {labels[i].id : i \in DOMAIN labels}

\* a checkbox of the label picker, or the x of a selected label
handleLabelToggle(labelId) ==
    /\ labelId \in LocalLabelIds
    /\ selectedLabelIds' = ToggleIn(selectedLabelIds, labelId)
    /\ alert' = ""
    /\ UNCHANGED <<storeVars, todos, users, labels, title, description,
                   dueDate, assigneeId, newLabelName, editingId,
                   filterVars, tasks, calls, toggles>>

handleFilterLabelToggle(labelId) ==
    /\ labelId \in LocalLabelIds
    /\ filterLabelIds' = ToggleIn(filterLabelIds, labelId)
    /\ alert' = ""
    /\ UNCHANGED <<storeVars, todos, users, labels, formVars, filterUserId,
                   tasks, calls, toggles>>

\* the assignee filter: a user, or "all" (the empty string)
SetFilterUserId(u) ==
    /\ u \in users \cup {""}
    /\ filterUserId' = u
    /\ alert' = ""
    /\ UNCHANGED <<storeVars, todos, users, labels, formVars, filterLabelIds,
                   tasks, calls, toggles>>

\* the button is rendered while a filter is set
clearAllFilters ==
    /\ filterUserId # "" \/ BagCardinality(filterLabelIds) > 0
    /\ filterUserId' = ""
    /\ filterLabelIds' = EmptyBag
    /\ alert' = ""
    /\ UNCHANGED <<storeVars, todos, users, labels, formVars, tasks, calls, toggles>>

\* resetForm(): every form field back to its initial value
resetForm ==
    /\ title' = <<>>
    /\ description' = ""
    /\ dueDate' = ""
    /\ assigneeId' = ""
    /\ selectedLabelIds' = EmptyBag
    /\ newLabelName' = <<>>
    /\ editingId' = 0

\* the Cancel button, rendered in edit mode
Cancel ==
    /\ editingId # 0
    /\ resetForm
    /\ alert' = ""
    /\ UNCHANGED <<storeVars, todos, users, labels, filterVars, tasks, calls, toggles>>

\* --------------------------------------------------------------- saveTodo
ValidationErrorLabelsOptional ==
    IF Trim(title) = <<>> THEN "Title is required"
    ELSE IF assigneeId = "" THEN "Assignee is required"
    ELSE ""

\* the message of the first validation that fails, "" when all pass
ValidationError ==
    IF Trim(title) = <<>> THEN "Title is required"
    ELSE IF assigneeId = "" THEN "Assignee is required"
    ELSE IF BagCardinality(selectedLabelIds) = 0 THEN "At least one label is required"
    ELSE ""

\* a Save button that does nothing while a save is waiting for the store
saveTodoOneAtATime ==
    \/ /\ ValidationError # ""
       /\ alert' = ValidationError
       /\ UNCHANGED <<storeVars, todos, users, labels, formVars, filterVars,
                      tasks, calls, toggles>>
    \/ /\ ValidationError = ""
       /\ \A t \in Pending : t.op # "save"
       /\ InFlight < MaxInFlight
       /\ editingId = 0 =>
             dbNextTodoId + PendingWith("save", "insert") <= MaxTodos
       /\ tasks' = Spawn([Task0 EXCEPT
                            !.op = "save",
                            !.pc = IF editingId # 0 THEN "update" ELSE "insert",
                            !.id = editingId,
                            !.editingId = editingId,
                            !.title = title,
                            !.description = description,
                            !.due_date = dueDate,
                            !.assignee_id = assigneeId,
                            !.sel = selectedLabelIds])
       /\ alert' = ""
       /\ UNCHANGED <<storeVars, todos, users, labels, formVars, filterVars,
                      calls, toggles>>

\* the handler up to its first await; the values it goes on with are those
\* of the render it was invoked in.  (The Save button is disabled while no
\* label is selected; the handler checks the selection again and is modelled
\* as it is written.)
saveTodo ==
    \/ /\ ValidationError # ""
       /\ alert' = ValidationError
       /\ UNCHANGED <<storeVars, todos, users, labels, formVars, filterVars,
                      tasks, calls, toggles>>
    \/ /\ ValidationError = ""
       /\ InFlight < MaxInFlight
       /\ editingId = 0 =>
             dbNextTodoId + PendingWith("save", "insert") <= MaxTodos
       /\ tasks' = Spawn([Task0 EXCEPT
                            !.op = "save",
                            !.pc = IF editingId # 0 THEN "update" ELSE "insert",
                            !.id = editingId,
                            !.editingId = editingId,
                            !.title = title,
                            !.description = description,
                            !.due_date = dueDate,
                            !.assignee_id = assigneeId,
                            !.sel = selectedLabelIds])
       /\ alert' = ""
       /\ UNCHANGED <<storeVars, todos, users, labels, formVars, filterVars,
                      calls, toggles>>

\* an end that clears the form and fetches nothing
SaveEndWithoutFetch(t) ==
    /\ resetForm
    /\ tasks' = Finish(t)

\* the end of both branches: resetForm(); fetchTodos() (not awaited)
SaveEnd(t) ==
    /\ resetForm
    /\ tasks' = Become(t, [Task0 EXCEPT !.op = "refresh", !.pc = "sent"])

\* an update without its .eq("id", editingId), that writes completed too
SaveUpdateOfAll(t, ok) ==
    /\ t \in Pending
    /\ t.op = "save"
    /\ t.pc = "update"
    /\ IF ok
       THEN /\ dbTodos' = {[r EXCEPT !.title = t.title,
                                     !.description = t.description,
                                     !.due_date = t.due_date,
                                     !.assignee_id = t.assignee_id,
                                     !.completed = FALSE] : r \in dbTodos}
            /\ tasks' = Become(t, [t EXCEPT !.pc = "joinDelete"])
            /\ alert' = ""
       ELSE /\ alert' = ErrorMessage
            /\ tasks' = Finish(t)
            /\ UNCHANGED dbTodos
    /\ UNCHANGED <<dbJoin, dbLabels, dbNextTodoId, dbNextLabelId, todos, users,
                   labels, formVars, filterVars, calls, toggles>>

\* an update whose error is not looked at
SaveUpdateUnchecked(t, ok) ==
    /\ t \in Pending
    /\ t.op = "save"
    /\ t.pc = "update"
    /\ IF ok
       THEN dbTodos' = {IF r.id = t.id
                        THEN [r EXCEPT !.title = t.title,
                                       !.description = t.description,
                                       !.due_date = t.due_date,
                                       !.assignee_id = t.assignee_id]
                        ELSE r : r \in dbTodos}
       ELSE UNCHANGED dbTodos
    /\ tasks' = Become(t, [t EXCEPT !.pc = "joinDelete"])
    /\ alert' = ""
    /\ UNCHANGED <<dbJoin, dbLabels, dbNextTodoId, dbNextLabelId, todos, users,
                   labels, formVars, filterVars, calls, toggles>>

\* from("todos").update({...}).eq("id", editingId) and what follows it
SaveUpdate(t, ok) ==
    /\ t \in Pending
    /\ t.op = "save"
    /\ t.pc = "update"
    /\ IF ok
       THEN /\ dbTodos' = {IF r.id = t.id
                           THEN [r EXCEPT !.title = t.title,
                                          !.description = t.description,
                                          !.due_date = t.due_date,
                                          !.assignee_id = t.assignee_id]
                           ELSE r : r \in dbTodos}
            /\ tasks' = Become(t, [t EXCEPT !.pc = "joinDelete"])
            /\ alert' = ""
       ELSE /\ alert' = ErrorMessage
            /\ tasks' = Finish(t)
            /\ UNCHANGED dbTodos
    /\ UNCHANGED <<dbJoin, dbLabels, dbNextTodoId, dbNextLabelId, todos, users,
                   labels, formVars, filterVars, calls, toggles>>

\* from("todo_labels").delete().eq("todo_id", editingId): its error is not read
SaveJoinDelete(t, ok) ==
    /\ t \in Pending
    /\ t.op = "save"
    /\ t.pc = "joinDelete"
    /\ dbJoin' = IF ok THEN JoinDelete(t.id) ELSE dbJoin
    /\ IF BagCardinality(t.sel) > 0
       THEN /\ tasks' = Become(t, [t EXCEPT !.pc = "joinInsert"])
            /\ UNCHANGED formVars
       ELSE SaveEnd(t)
    /\ alert' = ""
    /\ UNCHANGED <<dbTodos, dbLabels, dbNextTodoId, dbNextLabelId, todos, users,
                   labels, filterVars, calls, toggles>>

\* an insert of the join rows whose error stops the handler with a message
SaveJoinInsertChecked(t, ok) ==
    /\ t \in Pending
    /\ t.op = "save"
    /\ t.pc = "joinInsert"
    /\ ok => BagCardinality(JoinLabelBag(t.id)) + BagCardinality(t.sel) <= MaxJoinRows
    /\ IF ok
       THEN /\ dbJoin' = JoinInsert(t.id, t.sel)
            /\ SaveEnd(t)
            /\ alert' = ""
       ELSE /\ alert' = ErrorMessage
            /\ tasks' = Finish(t)
            /\ UNCHANGED <<dbJoin, formVars>>
    /\ UNCHANGED <<dbTodos, dbLabels, dbNextTodoId, dbNextLabelId, todos, users,
                   labels, filterVars, calls, toggles>>

\* from("todo_labels").insert(todoLabelsData): its error is logged only
SaveJoinInsert(t, ok) ==
    /\ t \in Pending
    /\ t.op = "save"
    /\ t.pc = "joinInsert"
    /\ ok => BagCardinality(JoinLabelBag(t.id)) + BagCardinality(t.sel) <= MaxJoinRows
    /\ dbJoin' = IF ok THEN JoinInsert(t.id, t.sel) ELSE dbJoin
    /\ SaveEnd(t)
    /\ alert' = ""
    /\ UNCHANGED <<dbTodos, dbLabels, dbNextTodoId, dbNextLabelId, todos, users,
                   labels, filterVars, calls, toggles>>

NewTodoRowOfNobody(t) ==
    [id |-> dbNextTodoId, title |-> t.title, description |-> t.description,
     due_date |-> t.due_date, completed |-> FALSE, assignee_id |-> ""]

\* the row the store makes of an insert into "todos"
NewTodoRow(t) ==
    [id |-> dbNextTodoId, title |-> t.title, description |-> t.description,
     due_date |-> t.due_date, completed |-> FALSE, assignee_id |-> t.assignee_id]

\* from("todos").insert([...]).select() and what follows it
SaveInsert(t, ok) ==
    /\ t \in Pending
    /\ t.op = "save"
    /\ t.pc = "insert"
    /\ IF ok
       THEN /\ dbTodos' = dbTodos \cup {NewTodoRow(t)}
            /\ dbNextTodoId' = dbNextTodoId + 1
            /\ alert' = ""
            /\ IF BagCardinality(t.sel) > 0
               THEN /\ tasks' = Become(t, [t EXCEPT !.pc = "joinInsert",
                                                    !.id = dbNextTodoId])
                    /\ UNCHANGED formVars
               ELSE SaveEnd(t)
       ELSE /\ alert' = ErrorMessage
            /\ tasks' = Finish(t)
            /\ UNCHANGED <<dbTodos, dbNextTodoId, formVars>>
    /\ UNCHANGED <<dbJoin, dbLabels, dbNextLabelId, todos, users, labels,
                   filterVars, calls, toggles>>

\* ------------------------------------------------------------- toggleTodo
\* one toggleTodo call in the history: the todo, its completed flag in the
\* local list and in the store when the checkbox was clicked, whether the call
\* has returned and with what, and the calls that had returned before it
Toggle(id) ==
    [id |-> id,
     local |-> LocalTodo(id).completed,
     store |-> IF id \in TodoIds
               THEN (CHOOSE r \in dbTodos : r.id = id).completed
               ELSE LocalTodo(id).completed,
     done |-> FALSE, ok |-> FALSE,
     prior |-> {i \in DOMAIN toggles : toggles[i].done}]

\* the checkbox of a todo on screen: toggleTodo(todo.id, todo.completed)
toggleTodo(id) ==
    /\ id \in ShownIds
    /\ InFlight < MaxInFlight
    /\ Len(toggles) < MaxCalls
    /\ tasks' = Spawn([Task0 EXCEPT !.op = "toggle", !.pc = "update", !.id = id,
                                    !.completed = LocalTodo(id).completed,
                                    !.call = Len(toggles) + 1])
    /\ toggles' = Append(toggles, Toggle(id))
    /\ alert' = ""
    /\ UNCHANGED <<storeVars, todos, users, labels, formVars, filterVars, calls>>

\* a patch that marks the todo as completed whatever it is given
PatchCompletedAsDone(prev, id, completed) ==
    [i \in DOMAIN prev |->
        IF prev[i].id = id THEN [prev[i] EXCEPT !.completed = TRUE]
        ELSE prev[i]]

\* a patch that gives the flag to every todo of the list
PatchCompletedOfAll(prev, id, completed) ==
    [i \in DOMAIN prev |-> [prev[i] EXCEPT !.completed = completed]]

\* setTodos(prev => prev.map(t => t.id === id ? { ...t, completed } : t))
PatchCompleted(prev, id, completed) ==
    [i \in DOMAIN prev |->
        IF prev[i].id = id THEN [prev[i] EXCEPT !.completed = completed]
        ELSE prev[i]]

\* from("todos").update({ completed: !completed }).eq("id", id) and the patch
ToggleReturn(t, ok) ==
    /\ t \in Pending
    /\ t.op = "toggle"
    /\ t.pc = "update"
    /\ IF ok
       THEN /\ dbTodos' = {IF r.id = t.id THEN [r EXCEPT !.completed = ~t.completed]
                           ELSE r : r \in dbTodos}
            /\ todos' = PatchCompleted(todos, t.id, ~t.completed)
       ELSE UNCHANGED <<dbTodos, todos>>
    /\ tasks' = Finish(t)
    /\ toggles' = [toggles EXCEPT ![t.call].done = TRUE, ![t.call].ok = ok]
    /\ alert' = ""
    /\ UNCHANGED <<dbJoin, dbLabels, dbNextTodoId, dbNextLabelId, users, labels,
                   formVars, filterVars, calls>>

\* --------------------------------------------------------------- editTodo
\* the Edit button of a todo on screen, up to the await
editTodo(id) ==
    /\ id \in ShownIds
    /\ InFlight < MaxInFlight
    /\ title' = LocalTodo(id).title
    /\ description' = LocalTodo(id).description
    /\ dueDate' = LocalTodo(id).due_date
    /\ assigneeId' = LocalTodo(id).assignee_id
    /\ tasks' = Spawn([Task0 EXCEPT !.op = "edit", !.pc = "select", !.id = id])
    /\ alert' = ""
    /\ UNCHANGED <<storeVars, todos, users, labels, selectedLabelIds,
                   newLabelName, editingId, filterVars, calls, toggles>>

\* from("todo_labels").select("label_id").eq("todo_id", todo.id) and the rest
EditReturn(t, ok) ==
    /\ t \in Pending
    /\ t.op = "edit"
    /\ t.pc = "select"
    /\ IF ok
       THEN selectedLabelIds' = JoinLabelBag(t.id)
       ELSE UNCHANGED selectedLabelIds
    /\ editingId' = t.id
    /\ tasks' = Finish(t)
    /\ alert' = ""
    /\ UNCHANGED <<storeVars, todos, users, labels, title, description, dueDate,
                   assigneeId, newLabelName, filterVars, calls, toggles>>

\* ------------------------------------------------------------- deleteTodo
\* a delete that starts with the todo row
deleteTodoRowFirst(id) ==
    /\ id \in ShownIds
    /\ InFlight < MaxInFlight
    /\ tasks' = Spawn([Task0 EXCEPT !.op = "delete", !.pc = "todoDelete", !.id = id])
    /\ alert' = ""
    /\ UNCHANGED <<storeVars, todos, users, labels, formVars, filterVars, calls, toggles>>

\* the Delete button of a todo on screen
deleteTodo(id) ==
    /\ id \in ShownIds
    /\ InFlight < MaxInFlight
    /\ tasks' = Spawn([Task0 EXCEPT !.op = "delete", !.pc = "joinDelete", !.id = id])
    /\ alert' = ""
    /\ UNCHANGED <<storeVars, todos, users, labels, formVars, filterVars, calls, toggles>>

\* from("todo_labels").delete().eq("todo_id", id): its error is not read
DeleteJoinDelete(t, ok) ==
    /\ t \in Pending
    /\ t.op = "delete"
    /\ t.pc = "joinDelete"
    /\ dbJoin' = IF ok THEN JoinDelete(t.id) ELSE dbJoin
    /\ tasks' = Become(t, [t EXCEPT !.pc = "todoDelete"])
    /\ alert' = ""
    /\ UNCHANGED <<dbTodos, dbLabels, dbNextTodoId, dbNextLabelId, todos, users,
                   labels, formVars, filterVars, calls, toggles>>

\* prev.filter(t => t.id !== id)
Without(prev, id) == SelectSeq(prev, LAMBDA x : x.id # id)

\* from("todos").delete().eq("id", id): its error is logged only
DeleteTodoDelete(t, ok) ==
    /\ t \in Pending
    /\ t.op = "delete"
    /\ t.pc = "todoDelete"
    /\ IF ok
       THEN /\ dbTodos' = {r \in dbTodos : r.id # t.id}
            /\ todos' = Without(todos, t.id)
       ELSE UNCHANGED <<dbTodos, todos>>
    /\ tasks' = Finish(t)
    /\ alert' = ""
    /\ UNCHANGED <<dbJoin, dbLabels, dbNextTodoId, dbNextLabelId, users, labels,
                   formVars, filterVars, calls, toggles>>


\* --------------------------------------------------------- createNewLabel
\* labels.find(label => label.name.toLowerCase() === trimmedName.toLowerCase())
\* answers the identifier of the first match, 0 when there is none
FindLabel(trimmedName) ==
    LET hits == {i \in DOMAIN labels :
                    ToLowerCase(labels[i].name) = ToLowerCase(trimmedName)}
    IN IF hits = {} THEN 0
       ELSE labels[CHOOSE i \in hits : \A j \in hits : i <= j].id

\* one createNewLabel call in the history: its argument, what it returned
\* (0 for null), whether it has returned, whether it issued a remote insert,
\* and the calls that had returned an identifier when it was invoked
Call(name, ret, done, ins) ==
    [name |-> name, ret |-> ret, done |-> done, ins |-> ins,
     prior |-> {i \in DOMAIN calls : calls[i].done /\ calls[i].ret # 0}]

\* handleAddNewLabel: createNewLabel(newLabelName) up to its await, and, when
\* it returns without one, the rest of the handler
handleAddNewLabel ==
    /\ Len(calls) < MaxCalls
    /\ BagCardinality(selectedLabelIds) < MaxSelected
    /\ LET trimmedName == Trim(newLabelName)
           existing == FindLabel(trimmedName)
       IN IF trimmedName = <<>>
          THEN /\ calls' = Append(calls, Call(newLabelName, 0, TRUE, FALSE))
               /\ UNCHANGED <<selectedLabelIds, newLabelName, tasks>>
          ELSE IF existing # 0
          THEN /\ calls' = Append(calls, Call(newLabelName, existing, TRUE, FALSE))
               /\ selectedLabelIds' = selectedLabelIds (+) SetToBag({existing})
               /\ newLabelName' = <<>>
               /\ UNCHANGED tasks
          ELSE /\ InFlight < MaxInFlight
               /\ dbNextLabelId + PendingWith("createLabel", "insert") <= MaxLabels
               /\ calls' = Append(calls, Call(newLabelName, 0, FALSE, TRUE))
               /\ tasks' = Spawn([Task0 EXCEPT !.op = "createLabel",
                                               !.pc = "insert",
                                               !.name = trimmedName,
                                               !.call = Len(calls) + 1])
               /\ UNCHANGED <<selectedLabelIds, newLabelName>>
    /\ alert' = ""
    /\ UNCHANGED <<storeVars, todos, users, labels, title, description, dueDate,
                   assigneeId, editingId, filterVars, toggles>>

\* from("labels").insert([{ name }]).select().single() and what follows it,
\* in createNewLabel and in handleAddNewLabel
CreateLabelReturn(t, ok) ==
    /\ t \in Pending
    /\ t.op = "createLabel"
    /\ t.pc = "insert"
    /\ IF ok
       THEN LET data == [id |-> dbNextLabelId, name |-> t.name]
            IN /\ dbLabels' = dbLabels \cup {data}
               /\ dbNextLabelId' = dbNextLabelId + 1
               /\ labels' = SortByName(Append(labels, data))
               /\ selectedLabelIds' = selectedLabelIds (+) SetToBag({data.id})
               /\ newLabelName' = <<>>
               /\ calls' = [calls EXCEPT ![t.call].ret = data.id,
                                         ![t.call].done = TRUE]
               /\ alert' = ""
       ELSE /\ alert' = "Failed to create new label: " \o ErrorMessage
            /\ calls' = [calls EXCEPT ![t.call].done = TRUE]
            /\ UNCHANGED <<dbLabels, dbNextLabelId, labels, selectedLabelIds,
                           newLabelName>>
    /\ tasks' = Finish(t)
    /\ UNCHANGED <<dbTodos, dbJoin, dbNextTodoId, todos, users, title,
                   description, dueDate, assigneeId, editingId, filterVars,
                   toggles>>

\* ---------------------------------------------------------- specifications
\* what the store and the pending handlers do
Background ==
    \/ \E t \in Pending, ok \in BOOLEAN : ServeTodos(t, ok)
    \/ \E t \in Pending : FetchTodosReturn(t)
    \/ \E t \in Pending, ok \in BOOLEAN : ServeLabels(t, ok)
    \/ \E t \in Pending : FetchLabelsReturn(t)
    \/ \E t \in Pending, ok \in BOOLEAN : FetchUsersReturn(t, ok)

\* the pending handlers of saveTodo in create mode
CreateSteps ==
    \/ \E t \in Pending, ok \in BOOLEAN : SaveInsert(t, ok)
    \/ \E t \in Pending, ok \in BOOLEAN : SaveJoinInsert(t, ok)

\* the pending handlers of saveTodo in edit mode
UpdateSteps ==
    \/ \E t \in Pending, ok \in BOOLEAN : SaveUpdate(t, ok)
    \/ \E t \in Pending, ok \in BOOLEAN : SaveJoinDelete(t, ok)
    \/ \E t \in Pending, ok \in BOOLEAN : SaveJoinInsert(t, ok)

\* Creating todos: the store starts without todos, the form is filled in
\* and saved.
InitCreate == TwoLabels /\ NoTodos /\ Loaded

NextCreate ==
    \/ \E v \in {<<"t">>} : SetTitle(v)
    \/ \E u \in UserIds : SetAssigneeId(u)
    \/ \E l \in 1..2 : handleLabelToggle(l)
    \/ saveTodo
    \/ CreateSteps
    \/ \E t \in Pending, ok \in BOOLEAN : ServeTodos(t, ok)
    \/ \E t \in Pending : FetchTodosReturn(t)

SpecCreate == InitCreate /\ [][NextCreate]_vars

\* Editing a todo: the store starts with one todo, whose creation used up
\* the identifiers; the form is opened on it, changed and saved.
InitEdit == TwoLabels /\ OneTodo /\ Loaded

NextEdit ==
    \/ \E v \in Titles : SetTitle(v)
    \/ \E u \in {"u1"} : SetAssigneeId(u)
    \/ \E l \in 1..2 : handleLabelToggle(l)
    \/ \E id \in 1..MaxTodos : editTodo(id)
    \/ \E t \in Pending, ok \in BOOLEAN : EditReturn(t, ok)
    \/ Cancel
    \/ saveTodo
    \/ UpdateSteps
    \/ \E t \in Pending, ok \in BOOLEAN : ServeTodos(t, ok)
    \/ \E t \in Pending : FetchTodosReturn(t)

SpecEdit == InitEdit /\ [][NextEdit]_vars

\* Editing a todo and adding a label by its name: the form is opened on the
\* todo, the name of a label is typed and added, the form is saved.
NextEditAdd ==
    \/ \E v \in {<<"A">>} : SetNewLabelName(v)
    \/ handleAddNewLabel
    \/ \E id \in 1..MaxTodos : editTodo(id)
    \/ \E t \in Pending, ok \in BOOLEAN : EditReturn(t, ok)
    \/ saveTodo
    \/ UpdateSteps
    \/ \E t \in Pending, ok \in BOOLEAN : ServeTodos(t, ok)
    \/ \E t \in Pending : FetchTodosReturn(t)

SpecEditAdd == InitEdit /\ [][NextEditAdd]_vars

\* Deleting and toggling the todo of the store.
NextDelete ==
    \/ \E id \in 1..MaxTodos : deleteTodo(id)
    \/ \E t \in Pending, ok \in BOOLEAN : DeleteJoinDelete(t, ok)
    \/ \E t \in Pending, ok \in BOOLEAN : DeleteTodoDelete(t, ok)
    \/ \E id \in 1..MaxTodos : toggleTodo(id)
    \/ \E t \in Pending, ok \in BOOLEAN : ToggleReturn(t, ok)
    \/ Mount
    \/ Background

SpecDelete == InitEdit /\ [][NextDelete]_vars

\* Filtering: the store holds any todos with any labels, the list is loaded,
\* the filters are set and cleared.
InitView ==
    /\ TwoLabels
    /\ dbTodos \in SUBSET {[id |-> i, title |-> <<"t">>, description |-> "",
                            due_date |-> "", completed |-> FALSE,
                            assignee_id |-> u] : i \in 1..MaxTodos, u \in UserIds}
    /\ \A r, q \in dbTodos : r.id = q.id => r = q
    /\ dbJoin \in {SetToBag(rows) :
                      rows \in SUBSET {JoinRow(i, l) : i \in TodoIds, l \in 1..2}}
    /\ dbNextTodoId = MaxTodos + 1
    /\ Loaded

NextView ==
    \/ \E u \in UserIds \cup {""} : SetFilterUserId(u)
    \/ \E l \in 1..2 : handleFilterLabelToggle(l)
    \/ clearAllFilters

SpecView == InitView /\ [][NextView]_vars

\* Ticking checkboxes: the store holds any todos with any labels, the list is
\* loaded; a title is typed, the list is filtered by assignee, the checkboxes
\* of the todos on screen are clicked.
NextCheckbox ==
    \/ \E v \in {<<"t">>} : SetTitle(v)
    \/ \E u \in {"", "u1"} : SetFilterUserId(u)
    \/ \E id \in 1..MaxTodos : toggleTodo(id)
    \/ \E t \in Pending, ok \in BOOLEAN : ToggleReturn(t, ok)

SpecCheckbox == InitView /\ [][NextCheckbox]_vars

\* Rewriting one of two todos: the store holds two todos, each with its
\* assignee and its label, completed or not, and no identifier is left for a
\* third; the form is opened on the first todo, a description is typed, the
\* second label is ticked or unticked, and the form is saved; the user acts
\* when the operation before has returned and the list is fetched again.
TwoTodos ==
    /\ \E c1, c2 \in BOOLEAN :
          dbTodos = {[id |-> 1, title |-> <<"t">>, description |-> "",
                      due_date |-> "", completed |-> c1, assignee_id |-> "u1"],
                     [id |-> 2, title |-> <<"t">>, description |-> "",
                      due_date |-> "", completed |-> c2, assignee_id |-> "u2"]}
    /\ dbJoin = SetToBag({JoinRow(1, 1), JoinRow(2, 2)})
    /\ dbNextTodoId = MaxTodos + 1

InitRewrite == TwoLabels /\ TwoTodos /\ Loaded

NextRewrite ==
    \/ \E v \in {"x"} : tasks = EmptyBag /\ SetDescription(v)
    \/ \E l \in {2} : tasks = EmptyBag /\ handleLabelToggle(l)
    \/ \E id \in {1} : tasks = EmptyBag /\ editTodo(id)
    \/ \E t \in Pending, ok \in BOOLEAN : EditReturn(t, ok)
    \/ tasks = EmptyBag /\ saveTodo
    \/ UpdateSteps
    \/ \E t \in Pending, ok \in BOOLEAN : ServeTodos(t, ok)
    \/ \E t \in Pending : FetchTodosReturn(t)

SpecRewrite == InitRewrite /\ [][NextRewrite]_vars

\* Saving in both modes and deleting, one operation after the other: the
\* store starts with one todo and room for another; the form is filled in or
\* opened on a todo, and saved; todos are deleted.  The user starts an
\* operation when the one before has returned and the list is refreshed.
InitOps == TwoLabels /\ FirstTodo /\ Loaded

NextOps ==
    \/ \E v \in {<<"t">>} : SetTitle(v)
    \/ \E u \in {"u2"} : SetAssigneeId(u)
    \/ \E l \in {2} : handleLabelToggle(l)
    \/ \E id \in 1..MaxTodos : tasks = EmptyBag /\ editTodo(id)
    \/ \E t \in Pending, ok \in BOOLEAN : EditReturn(t, ok)
    \/ tasks = EmptyBag /\ saveTodo
    \/ \E t \in Pending, ok \in BOOLEAN : SaveInsert(t, ok)
    \/ UpdateSteps
    \/ \E id \in 1..MaxTodos : tasks = EmptyBag /\ deleteTodo(id)
    \/ \E t \in Pending, ok \in BOOLEAN : DeleteJoinDelete(t, ok)
    \/ \E t \in Pending, ok \in BOOLEAN : DeleteTodoDelete(t, ok)
    \/ \E t \in Pending, ok \in BOOLEAN : ServeTodos(t, ok)
    \/ \E t \in Pending : FetchTodosReturn(t)

SpecOps == InitOps /\ [][NextOps]_vars

\* Saving with saves in flight side by side: either the store starts
\* without todos and todos are created, or it starts with the one todo that
\* used up the identifiers and the todo is edited.
Creating == dbNextTodoId <= MaxTodos \/ 1 \in TodoIds

InitSave == InitCreate \/ InitEdit

NextSave ==
    \/ Creating /\ NextCreate
    \/ ~Creating /\ NextEdit

SpecSave == InitSave /\ [][NextSave]_vars

\* Loading: the component has just mounted on a store with one todo and one
\* label; the three fetches return in any order, each with rows or with an
\* error; a label is added meanwhile; the page is loaded again.
InitLoad ==
    /\ OneLabel
    /\ FirstTodo
    /\ FreshComponent
    /\ tasks = MountTasks
    /\ alert = ""
    /\ calls = <<>>
    /\ toggles = <<>>

NextLoad ==
    \/ Background
    \/ Mount
    \/ \E v \in {<<"a">>} : SetNewLabelName(v)
    \/ handleAddNewLabel
    \/ \E t \in Pending, ok \in BOOLEAN : CreateLabelReturn(t, ok)

SpecLoad == InitLoad /\ [][NextLoad]_vars

\* Choosing an assignee: the store holds any todos, the list is loaded; todos
\* are opened in the form, the assignee is changed, the edit is cancelled,
\* todos are deleted.
NextAssign ==
    \/ \E id \in 1..MaxTodos : editTodo(id)
    \/ \E t \in Pending, ok \in BOOLEAN : EditReturn(t, ok)
    \/ \E u \in UserIds : SetAssigneeId(u)
    \/ Cancel
    \/ \E id \in 1..MaxTodos : deleteTodo(id)
    \/ \E t \in Pending, ok \in BOOLEAN : DeleteJoinDelete(t, ok)
    \/ \E t \in Pending, ok \in BOOLEAN : DeleteTodoDelete(t, ok)

SpecAssign == InitView /\ [][NextAssign]_vars

\* Creating labels, from the mount on: the fetches of the users and of the
\* todos have returned, that of the labels is pending.
InitLabels ==
    /\ OneLabel
    /\ NoTodos
    /\ todos = <<>>
    /\ users = dbUsers
    /\ labels = <<>>
    /\ title = <<>>
    /\ description = ""
    /\ dueDate = ""
    /\ assigneeId = ""
    /\ selectedLabelIds = EmptyBag
    /\ newLabelName = <<>>
    /\ editingId = 0
    /\ filterUserId = ""
    /\ filterLabelIds = EmptyBag
    /\ tasks = SetToBag({[Task0 EXCEPT !.op = "fetchLabels", !.pc = "sent"]})
    /\ alert = ""
    /\ calls = <<>>
    /\ toggles = <<>>

NextLabels ==
    \/ \E t \in Pending, ok \in BOOLEAN : ServeLabels(t, ok)
    \/ \E t \in Pending : FetchLabelsReturn(t)
    \/ \E v \in LabelNames : SetNewLabelName(v)
    \/ handleAddNewLabel
    \/ \E t \in Pending, ok \in BOOLEAN : CreateLabelReturn(t, ok)

SpecLabels == InitLabels /\ [][NextLabels]_vars

\* ------------------------------------------------------------------ claims
\* the labels the join table holds for a todo, as a set
StoredLabelSet(id) == {r.label_id : r \in JoinRowsOf(id)}

\* a title that is empty or made of white space only
Blank(s) == \A i \in DOMAIN s : s[i] = " "

\* the form passes the three checks of saveTodo
ValidForm ==
    /\ ~Blank(title)
    /\ assigneeId # ""
    /\ BagToSet(selectedLabelIds) # {}

\* this step starts a handler that is like u
Started(u) == CopiesIn(u, tasks') = CopiesIn(u, tasks) + 1

\* the create-mode saveTodo t ends in this step
CreateEnds(t) ==
    /\ t.op = "save"
    /\ t.editingId = 0
    /\ \/ SaveInsert(t, FALSE)
       \/ SaveJoinInsert(t, TRUE)
       \/ SaveJoinInsert(t, FALSE)

\* C1, as claimed: every saveTodo of a valid form with no edit target adds
\* one row to the todos table, with the chosen assignee, and the join rows of
\* the new identifier are the selected labels.
C1_EverySaveCreates ==
    [][\A t \in Pending :
          CreateEnds(t) =>
             /\ t.pc = "joinInsert"
             /\ \E r \in dbTodos' : r.id = t.id /\ r.assignee_id = t.assignee_id
             /\ (StoredLabelSet(t.id))' = BagToSet(t.sel)]_vars

\* C1, amended: a saveTodo of a valid form with no edit target goes on with
\* the values of the form; when its insert into todos succeeds the table gains
\* exactly one row, under a new identifier, with the chosen assignee; when its
\* insert into the join table succeeds too, the join rows of the new identifier
\* are the selected labels.
C1_SaveCreatesWhenStoreAccepts ==
    [][/\ (ValidForm /\ editingId = 0 /\ saveTodo) =>
             \E u \in BagToSet(tasks') :
                /\ Started(u)
                /\ u.op = "save" /\ u.pc = "insert"
                /\ u.title = title
                /\ u.assignee_id = assigneeId
                /\ u.sel = selectedLabelIds
       /\ \A t \in Pending :
             /\ (t.editingId = 0 /\ SaveInsert(t, TRUE)) =>
                   \E r \in dbTodos' :
                      /\ r.id \notin TodoIds
                      /\ dbTodos' = dbTodos \cup {r}
                      /\ r.assignee_id = t.assignee_id
                      /\ r.title = t.title
                      /\ \E u \in BagToSet(tasks') :
                            Started(u) /\ u.pc = "joinInsert" /\ u.id = r.id
                                       /\ u.sel = t.sel
             /\ (t.editingId = 0 /\ SaveJoinInsert(t, TRUE)) =>
                   /\ dbTodos' = dbTodos
                   /\ (StoredLabelSet(t.id))' = BagToSet(t.sel)]_vars

\* a todo created for the second user with both labels
C1_Witness ==
    \E r \in dbTodos : r.assignee_id = "u2" /\ StoredLabelSet(r.id) = {1, 2}

\* C2: saveTodo on a form with a blank title, no assignee or no label raises
\* a message, starts no remote call and changes neither the store, the todo
\* list, the form nor the edit target; in create mode and in edit mode.
C2_InvalidFormIsRejected ==
    [][(~ValidForm /\ saveTodo) =>
          /\ alert' # ""
          /\ tasks' = tasks
          /\ storeVars' = storeVars
          /\ todos' = todos
          /\ formVars' = formVars]_vars

\* in edit mode, with title and assignee, the save was refused for its labels
C2_Witness ==
    /\ alert = "At least one label is required"
    /\ editingId # 0
    /\ ~Blank(title)
    /\ assigneeId # ""

\* C3, as claimed, for the saves whose remote calls are all accepted: after
\* an edit-mode save the join rows of the todo are the selected labels, none of
\* the rows it had before, and each label once, so that the label list a
\* reload flattens has no duplicates.
C3_EditReplacesLabels ==
    [][\A t \in Pending :
          (t.editingId # 0 /\ JoinRowsOf(t.id) = {} /\ SaveJoinInsert(t, TRUE)) =>
             (FlatLabels(t.id))' = [l \in BagToSet(t.sel) |-> 1]]_vars

\* C4, as claimed, for the deletes whose delete of the todo row is accepted:
\* when deleteTodo(id) has returned, the todo is not in the local list and no
\* join row refers to id, so that a reload finds none.
C4_DeleteRemoves ==
    [][\A t \in Pending :
          DeleteTodoDelete(t, TRUE) =>
             t.id \notin LocalIds' /\ (JoinRowsOf(t.id))' = {}]_vars

\* the completed flag of a todo in the todos table
StoredCompleted(id) == (CHOOSE r \in dbTodos : r.id = id).completed

\* toggle j is the next toggle of the same todo after toggle i
NextToggle(i, j) ==
    /\ i < j
    /\ toggles[i].id = toggles[j].id
    /\ \A k \in DOMAIN toggles : (i < k /\ k < j) => toggles[k].id # toggles[i].id

\* C5, as claimed: when the toggle of a todo has been invoked twice, the
\* completed flag of the todo is what it was before the first toggle, in the
\* store and in the local list.
C5_TwoTogglesRestore ==
    \A i, j \in DOMAIN toggles :
       (NextToggle(i, j) /\ toggles[i].done /\ toggles[j].done) =>
          /\ toggles[i].id \in TodoIds =>
                StoredCompleted(toggles[i].id) = toggles[i].store
          /\ toggles[i].id \in LocalIds =>
                LocalTodo(toggles[i].id).completed = toggles[i].local

\* toggle j was invoked after toggle i of the same todo had returned with its
\* update accepted, when the flag held the result of toggle i in the store and
\* in the local list
TogglesInSequence(i, j) ==
    /\ NextToggle(i, j)
    /\ i \in toggles[j].prior
    /\ toggles[i].ok
    /\ toggles[i].store = toggles[i].local
    /\ toggles[j].store = ~toggles[i].store
    /\ toggles[j].local = ~toggles[i].local

\* C5, amended: every toggleTodo issues one remote update and no other call;
\* when the second toggle of a todo is invoked after the first has returned
\* with its update accepted, while the store and the local list both hold the
\* result of the first, and the update of the second is accepted too, then at
\* the return of the second the completed flag of the todo, where the todo
\* still exists, is what it was before the first toggle, in the store and in
\* the local list.
C5_TogglesInSequenceRestore ==
    [][/\ \A id \in LocalIds :
             toggleTodo(id) =>
                /\ BagCardinality(tasks') = BagCardinality(tasks) + 1
                /\ \E u \in BagToSet(tasks') :
                      Started(u) /\ u.op = "toggle" /\ u.pc = "update" /\ u.id = id
       /\ \A t \in Pending :
             /\ (ToggleReturn(t, TRUE) \/ ToggleReturn(t, FALSE)) =>
                   BagCardinality(tasks') = BagCardinality(tasks) - 1
             /\ \A i \in DOMAIN toggles :
                   (ToggleReturn(t, TRUE) /\ TogglesInSequence(i, t.call)) =>
                      /\ t.id \in TodoIds' =>
                            (StoredCompleted(t.id))' = toggles[i].store
                      /\ t.id \in LocalIds' =>
                            (LocalTodo(t.id))'.completed = toggles[i].local]_vars

\* two toggles of the todo in sequence, both accepted, have returned
C5_Witness ==
    /\ Len(toggles) = 2
    /\ TogglesInSequence(1, 2)
    /\ toggles[2].done /\ toggles[2].ok
    /\ toggles[1].id \in TodoIds \cap LocalIds
    /\ StoredCompleted(toggles[1].id) = toggles[1].store
    /\ LocalTodo(toggles[1].id).completed = toggles[1].local

\* the names of calls i and j are not blank and differ at most in letter case
\* and in the white space around them
SameNameIgnoringCase(i, j) ==
    /\ Trim(calls[i].name) # <<>>
    /\ ToLowerCase(Trim(calls[i].name)) = ToLowerCase(Trim(calls[j].name))

\* C6, as claimed, for a second call invoked after the first has returned an
\* identifier: two createLabel calls whose names differ only in letter case
\* return the same label identifier, and at most one of them issues a remote
\* insert.
C6_SameLabelForSameName ==
    \A i, j \in DOMAIN calls :
       (/\ i < j
        /\ SameNameIgnoringCase(i, j)
        /\ i \in calls[j].prior
        /\ calls[j].done) =>
          /\ calls[j].ret = calls[i].ret
          /\ ~(calls[i].ins /\ calls[j].ins)

\* the positions of the local list whose todo is assigned to the user filter
AssignedToFilter ==
    {i \in DOMAIN todos : filterUserId = "" \/ todos[i].assignee_id = filterUserId}

\* s is made of the elements of t at the positions pos, in the order of t
IsSelection(s, t, pos) ==
    /\ Len(s) = Cardinality(pos)
    /\ \E f \in [DOMAIN s -> pos] :
          /\ \A k, m \in DOMAIN s : k < m => f[k] < f[m]
          /\ \A k \in DOMAIN s : s[k] = t[f[k]]

\* C7: with no label filter, the visible list is made of exactly the todos
\* whose assignee is the user filter, in the order of the local list; with no
\* user filter either it is the local list.
C7_AssigneeFilterSelects ==
    BagCardinality(filterLabelIds) = 0 =>
       /\ IsSelection(filteredTodos, todos, AssignedToFilter)
       /\ filterUserId = "" => filteredTodos = todos

\* of two todos of different users, the user filter shows the second only
C7_Witness ==
    /\ BagCardinality(filterLabelIds) = 0
    /\ filterUserId # ""
    /\ Len(todos) = 2
    /\ Len(filteredTodos) = 1
    /\ filteredTodos[1] = todos[2]

\* C8: with one label filter or more, a todo of the local list is visible
\* exactly when its labels contain every selected label and it passes the
\* user filter.
C8_LabelFiltersAllRequired ==
    BagCardinality(filterLabelIds) > 0 =>
       \A i \in DOMAIN todos :
          todos[i].id \in ShownIds <=>
             /\ BagToSet(filterLabelIds) \subseteq BagToSet(todos[i].labels)
             /\ filterUserId = "" \/ todos[i].assignee_id = filterUserId

\* two labels are selected: the todo with one of them is hidden, the todo
\* with both is shown
C8_Witness ==
    /\ BagToSet(filterLabelIds) = {1, 2}
    /\ \E i, j \in DOMAIN todos :
          /\ BagToSet(todos[i].labels) = {1}
          /\ todos[i].id \notin ShownIds
          /\ BagToSet(todos[j].labels) = {1, 2}
          /\ todos[j].id \in ShownIds

\* C9, as claimed: when no operation is pending, the labels of every todo of
\* the local list are the labels the join table holds for it.
C9_LocalLabelsMatchJoinTable ==
    tasks = EmptyBag =>
       \A i \in DOMAIN todos :
          BagToSet(todos[i].labels) = StoredLabelSet(todos[i].id)

\* no two of the label rows have names that are equal ignoring case
DistinctIgnoringCase(rows) ==
    \A r, q \in rows : ToLowerCase(r.name) = ToLowerCase(q.name) => r = q

\* C10, as claimed: neither the local label set nor the labels table ever
\* holds two labels whose names are equal ignoring case.
C10_NamesDistinctIgnoringCase ==
    /\ DistinctIgnoringCase(Range(labels))
    /\ DistinctIgnoringCase(dbLabels)

\* the local users that no todo of the local list other than the one being
\* edited is assigned to
Unassigned ==
    {u \in users :
        \A i \in DOMAIN todos :
           todos[i].id # editingId => todos[i].assignee_id # u}

\* C11, as claimed: the available assignees are exactly the local users who
\* are not the assignee of any todo of the local list other than the todo
\* being edited.
C11_AvailableAreUnassigned == availableUsers = Unassigned

\* C11, amended: the available assignees are exactly the local users who are
\* not the assignee of any todo of the local list other than the todo being
\* edited, together with the user chosen in the form when that is a local
\* user.
C11_AvailableAreUnassignedOrChosen ==
    availableUsers = Unassigned \cup ({assigneeId} \cap users)

\* the first user's todo is being edited: the first user is offered, the
\* second, who has a todo of their own, is not
C11_Witness ==
    /\ editingId # 0
    /\ \E i, j \in DOMAIN todos :
          /\ todos[i].id = editingId
          /\ todos[i].assignee_id = "u1"
          /\ todos[j].id # editingId
          /\ todos[j].assignee_id = "u2"
    /\ "u1" \in availableUsers
    /\ "u2" \notin availableUsers

\* the call of handler t on the todo row is rejected in this step
TodoRowCallFails(t) ==
    \/ SaveInsert(t, FALSE)
    \/ SaveUpdate(t, FALSE)
    \/ DeleteTodoDelete(t, FALSE)

\* this step leaves the todo list, the form fields, the selected labels and
\* the edit target as they are
LocalKept == todos' = todos /\ formVars' = formVars

\* C12: when the call on the todo row is rejected (the insert of a create,
\* the update of an edit, the delete of deleteTodo) the handler returns with no
\* further call, and neither that step nor any earlier step of the operation
\* changes the todo list, the form fields, the selected labels or the edit
\* target.
C12_TodoRowFailureStops ==
    [][/\ \A t \in Pending :
             /\ TodoRowCallFails(t) =>
                   /\ tasks' = Finish(t)
                   /\ storeVars' = storeVars
                   /\ LocalKept
             /\ (DeleteJoinDelete(t, TRUE) \/ DeleteJoinDelete(t, FALSE)) => LocalKept
       /\ (ValidForm /\ saveTodo) => LocalKept
       /\ \A id \in LocalIds : deleteTodo(id) => LocalKept]_vars

\* the update of an edit was rejected: the form is still open on the todo
C12_Witness ==
    /\ alert = ErrorMessage
    /\ editingId # 0
    /\ title # <<>>
    /\ BagCardinality(selectedLabelIds) > 0
    /\ tasks = EmptyBag

\* C13, as claimed: every rejected call on the todo row, in saveTodo and in
\* deleteTodo, raises a message that carries the error of the store.
C13_TodoRowFailureIsShown ==
    [][\A t \in Pending : TodoRowCallFails(t) => alert' = ErrorMessage]_vars

\* C14: when the insert or update of the todo row was accepted and the
\* delete or the insert of the join rows is rejected, the todos table keeps
\* the row as written, no message is raised and the handler runs on: after a
\* rejected join delete to the join insert, after a rejected join insert to
\* the end, where the form is cleared and the todo list is fetched again.
C14_JoinFailureIsTolerated ==
    [][\A t \in Pending :
          /\ SaveJoinDelete(t, FALSE) =>
                /\ storeVars' = storeVars
                /\ alert' = ""
                /\ \E u \in BagToSet(tasks') :
                      /\ Started(u)
                      /\ u.pc = "joinInsert"
                      /\ u.id = t.id /\ u.sel = t.sel
          /\ SaveJoinInsert(t, FALSE) =>
                /\ storeVars' = storeVars
                /\ alert' = ""
                /\ formVars' = <<<<>>, "", "", "", EmptyBag, <<>>, 0>>
                /\ \E u \in BagToSet(tasks') :
                      Started(u) /\ u.op = "refresh" /\ u.pc = "sent"
                /\ tasks' = Become(t, [Task0 EXCEPT !.op = "refresh", !.pc = "sent"])
          /\ (SaveInsert(t, TRUE) \/ SaveUpdate(t, TRUE)) =>
                \E u \in BagToSet(tasks') :
                   Started(u) /\ u.pc \in {"joinDelete", "joinInsert"}]_vars

\* a todo was created and the insert of its join rows rejected: the row is
\* in the table without labels, the form is cleared, the refresh is on its way
C14_Witness ==
    /\ \E r \in dbTodos : r.id \notin LocalIds /\ JoinRowsOf(r.id) = {}
    /\ formVars = <<<<>>, "", "", "", EmptyBag, <<>>, 0>>
    /\ PendingWith("refresh", "sent") = 1
    /\ alert = ""

\* the handler t goes on, in this step, to wait for the call pc
GoesOnTo(t, pc) ==
    /\ BagCardinality(tasks') = BagCardinality(tasks)
    /\ \E u \in BagToSet(tasks') :
          Started(u) /\ u.op = t.op /\ u.pc = pc /\ tasks' = Become(t, u)

\* the handler t returns or ends with the refresh, in this step
CallsNoMore(t) ==
    \/ tasks' = Finish(t)
    \/ tasks' = Become(t, [Task0 EXCEPT !.op = "refresh", !.pc = "sent"])

\* C15: the calls of one user action are issued one at a time, each when
\* the one before has returned, in this order: a create issues the todo
\* insert, then the join insert; an update the todo update, then the join
\* delete, then the join insert; a delete the join delete, then the todo
\* delete.
C15_CallsInFixedOrder ==
    [][/\ (ValidForm /\ saveTodo) =>
             \E u \in BagToSet(tasks') :
                /\ Started(u)
                /\ BagCardinality(tasks') = BagCardinality(tasks) + 1
                /\ u.pc = IF editingId = 0 THEN "insert" ELSE "update"
       /\ \A id \in LocalIds :
             deleteTodo(id) =>
                \E u \in BagToSet(tasks') :
                   /\ Started(u)
                   /\ BagCardinality(tasks') = BagCardinality(tasks) + 1
                   /\ u.pc = "joinDelete"
       /\ \A t \in Pending :
             /\ SaveInsert(t, TRUE) => GoesOnTo(t, "joinInsert")
             /\ SaveUpdate(t, TRUE) => GoesOnTo(t, "joinDelete")
             /\ (SaveJoinDelete(t, TRUE) \/ SaveJoinDelete(t, FALSE)) =>
                   GoesOnTo(t, "joinInsert")
             /\ (SaveJoinInsert(t, TRUE) \/ SaveJoinInsert(t, FALSE)) =>
                   CallsNoMore(t)
             /\ (DeleteJoinDelete(t, TRUE) \/ DeleteJoinDelete(t, FALSE)) =>
                   GoesOnTo(t, "todoDelete")
             /\ (DeleteTodoDelete(t, TRUE) \/ DeleteTodoDelete(t, FALSE)) =>
                   CallsNoMore(t)
             /\ TodoRowCallFails(t) => CallsNoMore(t)]_vars

\* an update has come to its third call, the join rows deleted
C15_Witness ==
    \E t \in Pending :
       /\ t.op = "save"
       /\ t.editingId # 0
       /\ t.pc = "joinInsert"
       /\ JoinRowsOf(t.id) = {}

\* C16, as claimed: when no operation is pending, every row of the join
\* table refers to a todo of the todos table.
C16_NoOrphanJoinRows ==
    tasks = EmptyBag =>
       \A r \in BagToSet(dbJoin) : r.todo_id \in TodoIds

\* the fetch t is answered in this step, with rows or with an error
Served(t) ==
    \/ ServeTodos(t, TRUE) \/ ServeTodos(t, FALSE)
    \/ ServeLabels(t, TRUE) \/ ServeLabels(t, FALSE)

\* C17: the mount starts three fetches, of the todos, the users and the
\* labels, each a handler of its own; a fetch that is answered with an error
\* leaves its collection as it is, a fetch that is answered with rows replaces
\* its collection by them, and no fetch touches the collection of another or
\* ends another.
C17_FetchesAreIndependent ==
    [][/\ Mount =>
             /\ BagCardinality(tasks') = 3
             /\ \A o \in {"fetchTodos", "fetchUsers", "fetchLabels"} :
                   \E u \in BagToSet(tasks') : u.op = o /\ u.pc = "sent"
       /\ \A t \in Pending :
             /\ Served(t) =>
                   /\ <<todos, users, labels>>' = <<todos, users, labels>>
                   /\ BagCardinality(tasks') = BagCardinality(tasks)
             /\ ServeTodos(t, TRUE) =>
                   \E u \in BagToSet(tasks') : Started(u) /\ u.data = SelectTodos
             /\ ServeLabels(t, TRUE) =>
                   \E u \in BagToSet(tasks') : Started(u) /\ u.data \in SelectLabels
             /\ FetchTodosReturn(t) =>
                   /\ todos' = IF t.pc = "err" THEN todos ELSE t.data
                   /\ <<users, labels>>' = <<users, labels>>
                   /\ tasks' = Finish(t)
             /\ FetchLabelsReturn(t) =>
                   /\ labels' = IF t.pc = "err" THEN labels ELSE t.data
                   /\ <<todos, users>>' = <<todos, users>>
                   /\ tasks' = Finish(t)
             /\ FetchUsersReturn(t, TRUE) =>
                   /\ users' = dbUsers
                   /\ <<todos, labels>>' = <<todos, labels>>
                   /\ tasks' = Finish(t)
             /\ FetchUsersReturn(t, FALSE) =>
                   /\ <<todos, users, labels>>' = <<todos, users, labels>>
                   /\ tasks' = Finish(t)]_vars

\* the fetch of the labels failed and the label set kept the one label that
\* was added meanwhile; the todos and the users are those of the store
C17_Witness ==
    /\ tasks = EmptyBag
    /\ Len(labels) = 1
    /\ labels[1].name = <<"a">>
    /\ Cardinality(dbLabels) = 2
    /\ todos = SelectTodos
    /\ Len(todos) = 1
    /\ users = dbUsers

\* C18: when the insert of createNewLabel is rejected, a message is raised,
\* the call returns no identifier, and the labels table, the local label set,
\* the selected labels and the typed name stay as they are; on a name that is
\* empty or white space only, the call returns no identifier, issues no remote
\* call and changes nothing.
C18_FailedLabelInsertChangesNothing ==
    [][/\ \A t \in Pending :
             CreateLabelReturn(t, FALSE) =>
                /\ alert' # ""
                /\ calls'[t.call].done
                /\ calls'[t.call].ret = 0
                /\ tasks' = Finish(t)
                /\ <<storeVars, labels, selectedLabelIds, newLabelName>>'
                      = <<storeVars, labels, selectedLabelIds, newLabelName>>
       /\ (Blank(newLabelName) /\ handleAddNewLabel) =>
             /\ Len(calls') = Len(calls) + 1
             /\ calls'[Len(calls')].done
             /\ calls'[Len(calls')].ret = 0
             /\ ~calls'[Len(calls')].ins
             /\ tasks' = tasks
             /\ <<storeVars, labels, selectedLabelIds, newLabelName>>'
                   = <<storeVars, labels, selectedLabelIds, newLabelName>>]_vars

\* the insert of a label was rejected after a call on a blank name
C18_Witness ==
    /\ alert = "Failed to create new label: " \o ErrorMessage
    /\ newLabelName # <<>>
    /\ Len(calls) = 2
    /\ Blank(calls[1].name) /\ calls[1].ret = 0 /\ ~calls[1].ins
    /\ calls[2].ins /\ calls[2].done /\ calls[2].ret = 0

\* the todo row of the save handler t is written: in this step, or before it
RowWritten(t) ==
    \/ SaveInsert(t, TRUE)
    \/ SaveUpdate(t, TRUE)
    \/ \E ok \in BOOLEAN : SaveJoinDelete(t, ok) \/ SaveJoinInsert(t, ok)

\* the form in create mode, every field empty
ClearedForm == <<<<>>, "", "", "", EmptyBag, <<>>, 0>>

\* C19, as claimed: when the re-fetch a save has issued returns with rows,
\* the local list is the todos of the store, with their assignee and labels.
C19_RefreshedListIsStore ==
    [][\A t \in Pending :
          (t.op = "refresh" /\ t.pc = "ok" /\ FetchTodosReturn(t)) =>
             todos' = SelectTodos]_vars

\* C19, amended: a save whose todo row is written either goes on to its next
\* join call or ends; where it ends, the form is in create mode with every
\* field empty and one fetch of the todo list is issued; the store answers
\* the fetch with its todos, their assignee and labels, and when the fetch
\* returns with rows the local list becomes the rows of that answer; the
\* filters, and on the fetch's return the form, stay as they are.
C19_SaveClearsFormAndRefetches ==
    [][\A t \in Pending :
          /\ RowWritten(t) =>
                /\ filterVars' = filterVars
                /\ todos' = todos
                /\ \/ /\ \E pc \in {"joinDelete", "joinInsert"} : GoesOnTo(t, pc)
                      /\ formVars' = formVars
                   \/ /\ formVars' = ClearedForm
                      /\ tasks' = Become(t, [Task0 EXCEPT !.op = "refresh",
                                                          !.pc = "sent"])
          /\ (t.op = "refresh" /\ ServeTodos(t, TRUE)) =>
                \E u \in BagToSet(tasks') :
                   /\ u = [t EXCEPT !.pc = "ok", !.data = SelectTodos]
                   /\ tasks' = Become(t, u)
          /\ (t.op = "refresh" /\ t.pc = "ok" /\ FetchTodosReturn(t)) =>
                /\ todos' = t.data
                /\ (t.data = SelectTodos => todos' = SelectTodos)
                /\ filterVars' = filterVars
                /\ formVars' = formVars]_vars

\* a todo was created with a label, the form is cleared, the re-fetch has
\* returned and the local list shows the todo of the store with its label
C19_Witness ==
    /\ dbNextTodoId = 2
    /\ tasks = EmptyBag
    /\ formVars = ClearedForm
    /\ Len(todos) = 1
    /\ todos = SelectTodos
    /\ DOMAIN todos[1].labels # {}

\* the one field of the todo that a toggle may write
SameButCompleted(a, b) == [a EXCEPT !.completed = b.completed] = b

\* C20: a click on the checkbox of a todo starts one update of the todos
\* table and changes nothing yet; when the update returns the handler ends,
\* without a fetch or another call.  On success the store has flipped the
\* completed flag of the row with that identifier and nothing else, and the
\* local list differs only in the completed flag of the todo with that
\* identifier, flipped from what the checkbox showed; the users, the labels,
\* the form and the filters are unchanged.  On failure the store and the
\* local state are unchanged.
C20_ToggleChangesOneFlag ==
    [][/\ \A id \in LocalIds :
             toggleTodo(id) =>
                /\ \E u \in BagToSet(tasks') :
                      /\ u.op = "toggle" /\ u.pc = "update" /\ u.id = id
                      /\ tasks' = Spawn(u)
                /\ <<storeVars, todos, users, labels, formVars, filterVars>>'
                      = <<storeVars, todos, users, labels, formVars, filterVars>>
       /\ \A t \in Pending :
             /\ ToggleReturn(t, TRUE) =>
                   /\ tasks' = Finish(t)
                   /\ <<dbJoin, dbLabels, dbNextTodoId, dbNextLabelId>>'
                         = <<dbJoin, dbLabels, dbNextTodoId, dbNextLabelId>>
                   /\ {r \in dbTodos : r.id # t.id} = {r \in dbTodos' : r.id # t.id}
                   /\ \A r \in dbTodos : r.id = t.id =>
                         [r EXCEPT !.completed = ~t.completed] \in dbTodos'
                   /\ Cardinality(dbTodos') = Cardinality(dbTodos)
                   /\ DOMAIN todos' = DOMAIN todos
                   /\ \A i \in DOMAIN todos :
                         IF todos[i].id = t.id
                         THEN /\ SameButCompleted(todos[i], todos'[i])
                              /\ todos'[i].completed = ~t.completed
                         ELSE todos'[i] = todos[i]
                   /\ <<users, labels, formVars, filterVars>>'
                         = <<users, labels, formVars, filterVars>>
             /\ ToggleReturn(t, FALSE) =>
                   /\ tasks' = Finish(t)
                   /\ <<storeVars, todos, users, labels, formVars, filterVars>>'
                         = <<storeVars, todos, users, labels, formVars, filterVars>>]_vars

\* of two todos on screen, one with a label, the first was ticked with
\* success and the second without: one flag is set, in the list and in the
\* store, while a title is typed and a filter is set
C20_Witness ==
    /\ Len(todos) = 2
    /\ Len(toggles) = 2
    /\ toggles[1].done /\ toggles[1].ok
    /\ toggles[2].done /\ ~toggles[2].ok /\ toggles[2].id # toggles[1].id
    /\ \A i \in DOMAIN todos : todos[i].completed = (todos[i].id = toggles[1].id)
    /\ \A r \in dbTodos : r.completed = (r.id = toggles[1].id)
    /\ \E i \in DOMAIN todos : DOMAIN todos[i].labels # {}
    /\ title = <<"t">>
    /\ filterUserId = "u1"
    /\ tasks = EmptyBag

\* C21, as claimed: when editTodo returns, whether its fetch of the join rows
\* was answered with rows or with an error, the edit target is the todo, the
\* title, description, due date and assignee of the form are those of the
\* todo, and the selected labels are the label identifiers of the join rows
\* the store holds for the todo.
C21_EditSeedsFormFromStore ==
    [][\A t \in Pending, ok \in BOOLEAN :
          EditReturn(t, ok) =>
             /\ editingId' = t.id
             /\ title' = LocalTodo(t.id).title
             /\ description' = LocalTodo(t.id).description
             /\ dueDate' = LocalTodo(t.id).due_date
             /\ assigneeId' = LocalTodo(t.id).assignee_id
             /\ selectedLabelIds' = JoinLabelBag(t.id)]_vars

\* the identifiers of a list of todos go strictly down
Descending(list) ==
    \A i, j \in DOMAIN list : i < j => list[i].id > list[j].id

\* the create t, its row inserted, ends in this step
CreateDone(t) ==
    /\ t.op = "save"
    /\ t.editingId = 0
    /\ tasks' = Become(t, [Task0 EXCEPT !.op = "refresh", !.pc = "sent"])

Submission ==
    [Task0 EXCEPT !.op = "save", !.pc = "insert", !.title = title,
                  !.description = description, !.due_date = dueDate,
                  !.assignee_id = assigneeId, !.sel = selectedLabelIds]

\* a create of the form as it is waits for its insert, and the store has
\* room for another todo
SubmittedOnce ==
    /\ editingId = 0
    /\ ValidForm
    /\ CopiesIn(Submission, tasks) = 1
    /\ InFlight < MaxInFlight
    /\ dbNextTodoId + PendingWith("save", "insert") <= MaxTodos

\* the todos of the store that hold the values of the handler t
RowsLike(t) ==
    {r \in dbTodos : /\ r.title = t.title
                     /\ r.description = t.description
                     /\ r.due_date = t.due_date
                     /\ r.assignee_id = t.assignee_id}

\* C23: while a create of the form waits for its insert, Save can be pressed
\* again on the same form; the second click passes the validation and starts
\* a second handler with the same values; each of the two inserts its own
\* row when the store accepts it, the other still waiting or its row already
\* in the store, so that the store holds two todos with the values of the
\* one form.
C23_SecondSaveIsNotBlocked ==
    /\ [](SubmittedOnce => ENABLED (saveTodo /\ tasks' # tasks))
    /\ [][/\ (SubmittedOnce /\ saveTodo) =>
                /\ alert' = ""
                /\ CopiesIn(Submission, tasks') = 2
                /\ <<storeVars, todos, formVars>>' = <<storeVars, todos, formVars>>
          /\ \A t \in Pending :
                (t.editingId = 0 /\ CopiesIn(t, tasks) = 2 /\ SaveInsert(t, TRUE)) =>
                   /\ Cardinality(dbTodos') = Cardinality(dbTodos) + 1
                   /\ Cardinality((RowsLike(t))') = Cardinality(RowsLike(t)) + 1
                   /\ CopiesIn(t, tasks') = 1
          /\ \A t \in Pending :
                (/\ t.editingId = 0
                 /\ RowsLike(t) # {}
                 /\ SaveInsert(t, TRUE)) =>
                   /\ Cardinality(dbTodos') = Cardinality(dbTodos) + 1
                   /\ Cardinality((RowsLike(t))') >= 2]_vars

\* Save was pressed twice on one form and no save has ended yet: both
\* handlers have inserted their row and wait for their join rows, the store
\* holds two todos with the values of the form, which is still filled in
C23_Witness ==
    /\ dbTodos # {}
    /\ \A r \in dbTodos :
          /\ r.title = title
          /\ r.assignee_id = assigneeId
          /\ \E t \in Pending :
                /\ t.op = "save" /\ t.pc = "joinInsert" /\ t.id = r.id
                /\ t.sel = selectedLabelIds
    /\ Cardinality(dbTodos) = 2
    /\ ValidForm
    /\ editingId = 0
    /\ todos = <<>>

\* the rows of the todos table and of the join table that belong to the
\* todos other than id
RowsOfOthers(id) ==
    <<{r \in dbTodos : r.id # id}, {r \in BagToSet(dbJoin) : r.todo_id # id},
      [r \in {q \in BagToSet(dbJoin) : q.todo_id # id} |-> CopiesIn(r, dbJoin)]>>

\* the identifier and the completed flag of the todos of the store
KeysAndFlags == {<<r.id, r.completed>> : r \in dbTodos}

\* C24: a saveTodo in edit mode writes nothing to the store when it starts;
\* its update writes title, description, due date and assignee of the target
\* row and leaves the join table alone; its join calls leave the todos table
\* alone; at every step of it the identifier and the completed flag of every
\* todo, every column and every join row of every other todo, and the labels
\* table are unchanged in the store.
C24_EditWritesTargetOnly ==
    [][/\ (editingId # 0 /\ saveTodo) => storeVars' = storeVars
       /\ \A t \in Pending, ok \in BOOLEAN :
             (/\ t.editingId # 0
              /\ SaveUpdate(t, ok) \/ SaveJoinDelete(t, ok) \/ SaveJoinInsert(t, ok)) =>
                /\ (RowsOfOthers(t.id))' = RowsOfOthers(t.id)
                /\ KeysAndFlags' = KeysAndFlags
                /\ Cardinality(dbTodos') = Cardinality(dbTodos)
                /\ <<dbLabels, dbNextTodoId, dbNextLabelId>>'
                      = <<dbLabels, dbNextTodoId, dbNextLabelId>>
                /\ SaveUpdate(t, ok) => dbJoin' = dbJoin
                /\ SaveUpdate(t, TRUE) =>
                      \E r \in dbTodos' :
                         /\ r.id = t.id
                         /\ r.title = t.title
                         /\ r.description = t.description
                         /\ r.due_date = t.due_date
                         /\ r.assignee_id = t.assignee_id
                /\ (SaveJoinDelete(t, ok) \/ SaveJoinInsert(t, ok)) =>
                      dbTodos' = dbTodos]_vars

\* the first todo, completed, was given a description and the second label
\* while the second todo, completed too, kept its row and its join row
C24_Witness ==
    /\ \E r \in dbTodos : r.id = 1 /\ r.description = "x" /\ r.completed
    /\ \E r \in dbTodos : r.id = 2 /\ r.description = "" /\ r.completed
    /\ StoredLabelSet(1) = {2}
    /\ StoredLabelSet(2) = {2}
    /\ tasks = EmptyBag

====
